---- MODULE Spec2Model ----
(***************************************************************************)
(* State-machine model of the affvisionpy sample applications:             *)
(*   affvisionpy_sample.py  (face / object / occupant sample, "sample")    *)
(*   object_listener.py     (ObjectListener, the SDK callback)             *)
(*   affvisionpy-sample.py  (the older face-only sample, "legacy")         *)
(* Strings the code manipulates (paths, file names, the camera argument)   *)
(* are sequences of one-character strings, so that split, rsplit, "in",    *)
(* isdigit and int are computed as Python computes them.                   *)
(***************************************************************************)
EXTENDS Integers, Sequences, FiniteSets, TLC

(* ------------------------------ bounds -------------------------------- *)
MaxFrames == 2
MaxTs == 1
TimeUnit == 2
CliFrames == 1

(* -------------------------- program constants ------------------------- *)
NOT_A_NUMBER == "nan"
DEFAULT_FILE_NAME == <<"d", "e", "f", "a", "u", "l", "t">>
LEGACY_DEFAULT_FILE_NAME == <<"o", "u", "t", "p", "u", "t">>
ESC == 27
HEADER_ROW_FACES_INIT ==
    <<"TimeStamp", "faceId", "upperLeftX", "upperLeftY", "lowerRightX", "lowerRightY",
      "confidence", "interocular_distance", "pitch", "yaw", "roll", "joy", "anger",
      "surprise", "valence", "fear", "sadness", "disgust", "neutral", "contempt", "smile",
      "brow_raise", "brow_furrow", "nose_wrinkle", "upper_lip_raise", "mouth_open",
      "eye_closure", "cheek_raise", "yawn", "blink", "blink_rate", "eye_widen",
      "inner_brow_raise", "lip_corner_depressor", "gaze_region", "gaze_confidence",
      "glasses">>
HEADER_ROW_OBJECTS_INIT ==
    <<"TimeStamp", "objectId", "confidence", "upperLeftX", "upperLeftY", "lowerRightX",
      "lowerRightY", "ObjectType">>
HEADER_ROW_OCCUPANTS_INIT ==
    <<"TimeStamp", "occupantId", "confidence", "regionId", "regionType", "upperLeftX",
      "upperLeftY", "lowerRightX", "lowerRightY">>
LEGACY_HEADER_ROW ==
    <<"TimeStamp", "faceId", "upperLeftX", "upperLeftY", "lowerRightX", "lowerRightY",
      "confidence", "interocular_distance", "pitch", "yaw", "roll", "joy", "anger",
      "surprise", "valence", "fear", "sadness", "disgust", "neutral", "smile",
      "brow_raise", "brow_furrow", "nose_wrinkle", "upper_lip_raise", "mouth_open",
      "eye_closure", "cheek_raise", "yawn", "blink", "blink_rate", "eye_widen",
      "inner_brow_raise", "lip_corner_depressor", "mood", "dominant_emotion",
      "dominant_emotion_confidence">>

(* Python's None, for an argument that holds a string otherwise: a one-     *)
(* element sequence no string of single characters can equal.               *)
None == <<"<None>">>
SEP == "/"
CSV_EXT == <<".", "c", "s", "v">>

(* --------------------------- string functions ------------------------- *)
(* sub in s *)
Contains(s, sub) ==
    \E i \in 1..(Len(s) - Len(sub) + 1) : SubSeq(s, i, i + Len(sub) - 1) = sub

HasChar(s, ch) == \E i \in 1..Len(s) : s[i] = ch

(* s.split(ch)[0]: everything before the first ch, the whole of s without one *)
SplitFirst(s, ch) ==
    IF HasChar(s, ch)
    THEN LET i == CHOOSE k \in 1..Len(s) :
                      s[k] = ch /\ \A j \in 1..(k - 1) : s[j] # ch
         IN SubSeq(s, 1, i - 1)
    ELSE s

(* s.rsplit(ch, 1)[1], for s that holds ch: everything after the last ch *)
RSplitLast(s, ch) ==
    LET i == CHOOSE k \in 1..Len(s) :
                 s[k] = ch /\ \A j \in (k + 1)..Len(s) : s[j] # ch
    IN SubSeq(s, i + 1, Len(s))

Digits == {"0", "1", "2"}
DigitValue(c) == CASE c = "0" -> 0 [] c = "1" -> 1 [] c = "2" -> 2

(* str.isdigit(): non-empty and every character a digit *)
IsDigit(s) == Len(s) > 0 /\ \A i \in 1..Len(s) : s[i] \in Digits

RECURSIVE DecimalValue(_)
DecimalValue(s) ==
    IF Len(s) = 0 THEN 0
    ELSE 10 * DecimalValue(SubSeq(s, 1, Len(s) - 1)) + DigitValue(s[Len(s)])

(* int(s) of a string: an optional sign, then digits; anything else raises *)
IntParses(s) ==
    \/ IsDigit(s)
    \/ Len(s) > 1 /\ s[1] \in {"-", "+"} /\ IsDigit(Tail(s))
IntValue(s) ==
    IF IsDigit(s) THEN DecimalValue(s)
    ELSE IF s[1] = "-" THEN 0 - DecimalValue(Tail(s)) ELSE DecimalValue(Tail(s))

(* ----------------------------- environment ---------------------------- *)
(* The files and directories that exist, and what the command line may be. *)
ExistingFiles == {<<"a", ".", "m">>, <<"v", "/", "a", ".", "b", ".", "m">>,
                  <<"v", ".", "d", "/", "a">>}
ExistingDirs == {"models"}
VideoArgs == {None} \cup ExistingFiles \cup {<<"n", "o">>}
CameraArgs == {<<"1", "2">>, <<"-", "1">>, <<"x">>}
FileArgs == {DEFAULT_FILE_NAME, <<"o">>, <<"o", ".", "c", "s", "v", ".", "b">>}
(* -d and the environment variable: unset, the empty string, or a path *)
DataArgs == {"<None>", "", "models", "nodir"}
EnvValues == {"<None>", "", "models"}
isfile(p) == p \in ExistingFiles
isdir(p) == p \in ExistingDirs

Scripts == {"sample", "legacy"}
Ids == {"id1", "id2"}

(* The argparse namespaces parse_command_line can return.  The sample has   *)
(* --identity/--object/--occupant and -f defaulting to DEFAULT_FILE_NAME;   *)
(* the legacy script has neither flag and -f defaulting to None.            *)
ArgsOver(videos, cameras, files, datas, flags) ==
    [video : videos, camera : cameras, file : files, data : datas,
     show_identity : flags, show_object : flags, show_occupant : flags,
     show_face : {FALSE}]

CliArgs(s) ==
    IF s = "sample"
    THEN ArgsOver(VideoArgs, CameraArgs, FileArgs, DataArgs, BOOLEAN)
    ELSE ArgsOver(VideoArgs, CameraArgs, {None, <<"o">>}, DataArgs \ {"<None>"}, {FALSE})

(* The command lines of the runs whose frame loop is explored in depth. *)
RunArgs(s) ==
    IF s = "sample"
    THEN ArgsOver({None, <<"a", ".", "m">>}, {<<"0">>}, {DEFAULT_FILE_NAME},
                  {"models"}, BOOLEAN)
    ELSE ArgsOver({None, <<"a", ".", "m">>}, {<<"0">>}, {None, <<"o">>}, {"models"},
                  {FALSE})

(* ------------------------------- state -------------------------------- *)
VARIABLES
    script,          \* which program runs
    args,            \* the argparse namespace
    environ,         \* os.environ.get(DATA_DIR_ENV_VAR), "<None>" when unset
    pc,              \* position of the main thread in run
    input_file,      \* [isint, cam, path]: an int camera id or a path string
    data,            \* data directory
    csv_file,        \* name of the CSV file
    header_row,      \* the list object the global header_row refers to
    lists,           \* contents of the module-level header lists
    detector,        \* "none", "FrameDetector" or "SyncFrameDetector"
    started,         \* detector.start() was called
    stopped,         \* detector.stop() was called
    released,        \* capture_file.release() was called
    entered,         \* the process_*_input functions run has called
    framesLeft,      \* frames the capture can still deliver
    count,           \* frames processed so far
    curr_timestamp,  \* timestamp of the frame in hand, in ticks
    last_timestamp,  \* timestamp of the last processed frame, in ticks
    submitted,       \* the timestamps of the frames handed to detector.process
    accepted,        \* how many of them detector.process took without raising
    raised,          \* detector.process raised for the frame in hand
    steps,           \* the steps the frame in hand went through
    key,             \* last result of cv2.waitKey
    mutex,           \* listener.mutex: "free", "main" or "callback"
    listener,        \* ObjectListener: count, objects, bounding_box, confidence, type
    cb,              \* results_updated activation: [pc, objects, todo, n]
    snapshot,        \* the main loop's locals: objects and the copied dictionaries
    unread,          \* results completed since the main loop last copied
    csv_data,        \* the list of rows collected
    written,         \* the CSV files written: [name, header, rows]
    legacy           \* module globals of the legacy script

cliVars == <<script, args, environ, input_file, data, csv_file, header_row, lists>>
runVars == <<detector, started, stopped, released, entered>>
loopVars == <<framesLeft, count, curr_timestamp, last_timestamp, submitted, accepted,
              raised, steps, key>>
listenerVars == <<mutex, listener, cb, unread>>
outVars == <<csv_data, written>>
vars == <<pc, cliVars, runVars, loopVars, listenerVars, snapshot, outVars, legacy>>

NoInput == [isint |-> FALSE, cam |-> 0, path |-> None]
IntInput(n) == [isint |-> TRUE, cam |-> n, path |-> None]
PathInput(p) == [isint |-> FALSE, cam |-> 0, path |-> p]

EmptySnapshot == [taken |-> FALSE, objects |-> {}, measurements |-> {},
                  bounding_box |-> {}, confidence |-> {}, type |-> {}]

(* object_listener.py 12-23: ObjectListener.__init__ *)
NewListener == [count |-> 0, objects |-> {}, bounding_box |-> {}, confidence |-> {},
                type |-> {}]

IdleCallback == [pc |-> "idle", objects |-> {}, todo |-> {}, oid |-> "none", n |-> 0]

InitWith(argsOf(_), envs, frames) ==
    /\ script \in Scripts
    /\ args \in argsOf(script)
    /\ environ \in envs
    /\ pc = "start"
    /\ input_file = NoInput
    /\ data = "<None>"
    /\ csv_file = None
    /\ header_row = "header_row"
    /\ lists = [header_row |-> <<>>,
                HEADER_ROW_FACES |-> HEADER_ROW_FACES_INIT,
                HEADER_ROW_OBJECTS |-> HEADER_ROW_OBJECTS_INIT,
                HEADER_ROW_OCCUPANTS |-> HEADER_ROW_OCCUPANTS_INIT]
    /\ detector = "none"
    /\ started = FALSE
    /\ stopped = FALSE
    /\ released = FALSE
    /\ entered = {}
    /\ framesLeft = frames
    /\ count = 0
    /\ curr_timestamp = 0
    /\ last_timestamp = 0
    /\ submitted = <<>>
    /\ accepted = 0
    /\ raised = FALSE
    /\ steps = <<>>
    /\ key = 0
    /\ mutex = "free"
    /\ listener = NewListener
    /\ cb = IdleCallback
    /\ snapshot = EmptySnapshot
    /\ unread = 0
    /\ csv_data = <<>>
    /\ written = <<>>
    /\ legacy = [num_faces_defined |-> FALSE, faces |-> {}, measurements_dict |-> {},
                 process_last_ts |-> 0]

Init == InitWith(RunArgs, {"<None>"}, MaxFrames)

(* ------------------ get_command_line_parameters (sample) --------------- *)
(* affvisionpy_sample.py 553-561: [ok, value]; ok = FALSE is the ValueError *)
SelectInput(a) ==
    IF a.video # None
    THEN [ok |-> isfile(a.video), value |-> PathInput(a.video)]
    ELSE IF IsDigit(a.camera)
         THEN [ok |-> TRUE, value |-> IntInput(DecimalValue(a.camera))]
         ELSE [ok |-> FALSE, value |-> NoInput]

(* Python's truth value of an optional string: None and "" are false *)
Truthy(s) == s \notin {"<None>", ""}

(* faulty variant: the os.path.isdir check of lines 571-574 is missing *)
ResolveDataDirUnchecked(a, env) ==
    LET d == IF ~Truthy(a.data) THEN env ELSE a.data
    IN [ok |-> d # "<None>", value |-> d]

(* affvisionpy_sample.py 563-574: [ok, value]; ok = FALSE is sys.exit(1) *)
ResolveDataDir(a, env) ==
    LET d == IF ~Truthy(a.data) THEN env ELSE a.data
    IN [ok |-> d # "<None>" /\ isdir(d), value |-> d]

(* faulty variant: 'and' in place of 'or' in the minimum feature check *)
ShowFaceUnlessBoth(a) == ~(a.show_object /\ a.show_occupant)

(* affvisionpy_sample.py 576-580 *)
ShowFace(a) == ~(a.show_object \/ a.show_occupant)

(* faulty variant: the last branch, objects with occupants, is missing *)
FeatureConflictIdentityOnly(a) ==
    IF ~(a.show_object \/ a.show_occupant) THEN FALSE
    ELSE a.show_identity

(* affvisionpy_sample.py 578-597: TRUE when a branch calls sys.exit(1) *)
FeatureConflict(a) ==
    IF ~(a.show_object \/ a.show_occupant) THEN FALSE
    ELSE IF a.show_identity /\ a.show_object /\ a.show_occupant THEN TRUE
    ELSE IF a.show_identity /\ a.show_object THEN TRUE
    ELSE IF a.show_identity /\ a.show_occupant THEN TRUE
    ELSE IF a.show_object /\ a.show_occupant THEN TRUE
    ELSE FALSE

(* affvisionpy_sample.py 601-612: the list header_row is bound to *)
HeaderFor(a, current) ==
    IF a.show_face THEN "HEADER_ROW_FACES"
    ELSE IF a.show_object THEN "HEADER_ROW_OBJECTS"
    ELSE IF a.show_occupant THEN "HEADER_ROW_OCCUPANTS"
    ELSE current

(* affvisionpy_sample.py 539-619, after parse_command_line (492-520) *)
GetCommandLineParameters ==
    /\ pc = "start"
    /\ script = "sample"
    /\ LET in == SelectInput(args)
           dir == ResolveDataDir(args, environ)
           a2 == [args EXCEPT !.show_face = ShowFace(args)]
           hdr == HeaderFor(a2, header_row)
       IN IF ~in.ok
          THEN /\ pc' = "ValueError"
               /\ UNCHANGED <<args, input_file, data, csv_file, header_row, lists>>
          ELSE IF ~dir.ok
          THEN /\ pc' = "sys.exit(1)"
               /\ UNCHANGED <<args, input_file, data, csv_file, header_row, lists>>
          ELSE IF FeatureConflict(args)
          THEN /\ pc' = "sys.exit(1)"
               /\ args' = a2
               /\ UNCHANGED <<input_file, data, csv_file, header_row, lists>>
          ELSE /\ pc' = "create_detector"
               /\ input_file' = in.value
               /\ data' = dir.value
               /\ args' = a2
               /\ header_row' = hdr
               /\ lists' = IF a2.show_face /\ a2.show_identity
                           THEN [lists EXCEPT ![hdr] = @ \o <<"identity", "name">>]
                           ELSE lists
               /\ csv_file' = args.file
    /\ UNCHANGED <<script, environ, runVars, loopVars, listenerVars, snapshot, outVars,
                   legacy>>

(* ------------------ get_command_line_parameters (legacy) --------------- *)
(* affvisionpy-sample.py 89-94: int(args.camera) is the only camera check *)
LegacySelectInput(a) ==
    IF a.video # None
    THEN [ok |-> isfile(a.video), value |-> PathInput(a.video)]
    ELSE IF IntParses(a.camera)
         THEN [ok |-> TRUE, value |-> IntInput(IntValue(a.camera))]
         ELSE [ok |-> FALSE, value |-> NoInput]

(* affvisionpy-sample.py 96-105 *)
LegacyCsvFile(a) ==
    IF a.video # None /\ a.video # <<>> /\ (a.file = None \/ a.file = <<>>)
    THEN SplitFirst(a.video, ".") \o CSV_EXT
    ELSE IF a.file # None /\ a.file # <<>> THEN a.file
    ELSE LEGACY_DEFAULT_FILE_NAME \o CSV_EXT

(* affvisionpy-sample.py 88-125 *)
LegacyGetCommandLineParameters ==
    /\ pc = "start"
    /\ script = "legacy"
    /\ LET in == LegacySelectInput(args)
       IN IF ~in.ok \/ ~isdir(args.data)
          THEN /\ pc' = "ValueError"
               /\ UNCHANGED <<input_file, data, csv_file>>
          ELSE /\ pc' = "create_detector"
               /\ input_file' = in.value
               /\ data' = args.data
               /\ csv_file' = LegacyCsvFile(args)
    /\ UNCHANGED <<script, args, environ, header_row, lists, runVars, loopVars,
                   listenerVars, snapshot, outVars, legacy>>

(* ------------------------- run: detector and mode ---------------------- *)
(* affvisionpy_sample.py 60-65 *)
DetectorFor(in) == IF in.isint THEN "FrameDetector" ELSE "SyncFrameDetector"

(* affvisionpy_sample.py 60-91: detector, capture, writer, logo *)
CreateDetector ==
    /\ pc = "create_detector"
    /\ script = "sample"
    /\ detector' = DetectorFor(input_file)
    /\ pc' = "dispatch"
    /\ UNCHANGED <<cliVars, started, stopped, released, entered, loopVars, listenerVars,
                   snapshot, outVars, legacy>>

(* affvisionpy_sample.py 93-98: the function the if/elif chain calls *)
Dispatch(a) ==
    IF a.show_face THEN "process_face_input"
    ELSE IF a.show_object THEN "process_object_input"
    ELSE IF a.show_occupant THEN "process_occupant_input"
    ELSE "none"

Mode ==
    IF "process_face_input" \in entered THEN "face"
    ELSE IF "process_object_input" \in entered THEN "object"
    ELSE IF "process_occupant_input" \in entered THEN "occupant"
    ELSE "none"

(* affvisionpy_sample.py 93-98 with the preamble of the function called:    *)
(* 117-130, 202-214 or 274-284 (locals, features, listener, detector.start) *)
EnterLoop(f) ==
    /\ pc = "dispatch"
    /\ Dispatch(args) = f
    /\ entered' = entered \cup {f}
    /\ count' = 0
    /\ curr_timestamp' = 0
    /\ last_timestamp' = 0
    /\ listener' = NewListener
    /\ started' = TRUE
    /\ pc' = "capture"
    /\ UNCHANGED <<cliVars, detector, stopped, released, framesLeft, submitted, accepted,
                   raised,
                   steps, key, mutex, cb, unread, snapshot, outVars, legacy>>

ProcessFaceInput == EnterLoop("process_face_input")
ProcessObjectInput == EnterLoop("process_object_input")
ProcessOccupantInput == EnterLoop("process_occupant_input")

(* ----------------------------- frame loop ------------------------------ *)
(* Timestamps are counted in ticks, TimeUnit ticks to the millisecond, so   *)
(* that the camera's fractional milliseconds are exact.                     *)
(* int(x) for x >= 0, in milliseconds *)
IntOf(t) == t \div TimeUnit

(* round(x, 0): to the nearest millisecond, a tie to the even one *)
Round(t) ==
    LET q == t \div TimeUnit
        r == t % TimeUnit
    IN IF 2 * r < TimeUnit THEN q
       ELSE IF 2 * r > TimeUnit THEN q + 1
       ELSE IF q % 2 = 0 THEN q ELSE q + 1

(* affvisionpy_sample.py 140-143, 224-227, 293-296: the camera's clock      *)
(* gives any number of ticks, a video's position is cut to an int           *)
Timestamps(in) ==
    IF in.isint THEN 0..(MaxTs * TimeUnit)
    ELSE {IntOf(t) * TimeUnit : t \in 0..(MaxTs * TimeUnit)}

(* faulty variant: >= in place of >, so a repeated timestamp is processed *)
ShouldProcessRepeated(curr, last, n) == curr >= last \/ n = 0

(* affvisionpy_sample.py 144, 230, 299 *)
ShouldProcess(curr, last, n) == curr > last \/ n = 0

(* affvisionpy_sample.py 132-148, 216-234, 286-303: read a frame, take its  *)
(* timestamp, and either advance last_timestamp and count or skip the frame *)
ReadFrame ==
    /\ pc = "capture"
    /\ script = "sample"
    /\ \/ /\ pc' = "release"
          /\ UNCHANGED <<framesLeft, count, curr_timestamp, last_timestamp, raised, steps>>
       \/ /\ framesLeft > 0
          /\ framesLeft' = framesLeft - 1
          /\ \E t \in Timestamps(input_file) :
                /\ curr_timestamp' = t
                /\ IF ShouldProcess(t, last_timestamp, count)
                   THEN /\ last_timestamp' = t
                        /\ count' = count + 1
                        /\ raised' = FALSE
                        /\ steps' = <<>>
                        /\ pc' = "process"
                   ELSE /\ pc' = "capture"
                        /\ UNCHANGED <<last_timestamp, count, raised, steps>>
    /\ UNCHANGED <<cliVars, runVars, submitted, accepted, key, listenerVars, snapshot,
                   outVars,
                   legacy>>

(* faulty variant: an exception of detector.process leaves the frame loop *)
AfterProcessAbort(exc) == IF exc THEN "release" ELSE "acquire"

(* affvisionpy_sample.py 150-154, 236-240, 305-309: where the loop goes     *)
(* after detector.process, whether it returned or raised                    *)
AfterProcess(exc) == "acquire"

(* affvisionpy_sample.py 147-154, 233-240, 302-309 *)
Process ==
    /\ pc = "process"
    /\ script = "sample"
    /\ \E exc \in BOOLEAN :
          /\ submitted' = Append(submitted, [ts |-> curr_timestamp,
                                             frame_ts |-> IntOf(curr_timestamp)])
          /\ accepted' = IF exc THEN accepted ELSE accepted + 1
          /\ raised' = exc
          /\ pc' = AfterProcess(exc)
    /\ steps' = Append(steps, "process")
    /\ UNCHANGED <<cliVars, runVars, framesLeft, count, curr_timestamp, last_timestamp,
                   key, listenerVars, snapshot, outVars, legacy>>

(* --------------------------- dictionaries ------------------------------ *)
(* A dictionary is a set of <<key, value>> pairs with one pair per key.  A  *)
(* value is the number of the callback whose object it was taken from.      *)
Keys(d) == {p[1] : p \in d}
Put(d, k, v) == {p \in d : p[1] # k} \cup {<<k, v>>}
IdOrder == <<"id1", "id2">>
KeysInOrder(d) == SelectSeq(IdOrder, LAMBDA k : k \in Keys(d))

(* ----------------- ObjectListener.results_updated ---------------------- *)
(* The SDK calls results_updated on its own thread, once for a frame that   *)
(* detector.process accepted, between detector.start and detector.stop.     *)
(* object_listener.py 28: self.mutex.acquire() returns when the lock is free *)
ListenerCanAcquire(m) == m = "free"

(* object_listener.py 26-35 *)
CbAcquire ==
    /\ Mode = "object"
    /\ started /\ ~stopped
    /\ cb.pc = "idle"
    /\ cb.n < accepted
    /\ ListenerCanAcquire(mutex)
    /\ mutex' = "callback"
    /\ \E ids \in SUBSET Ids :
          cb' = [pc |-> "assign", objects |-> {<<i, cb.n + 1>> : i \in ids},
                 todo |-> <<>>, oid |-> "none", n |-> cb.n + 1]
    /\ UNCHANGED <<pc, cliVars, runVars, loopVars, listener, unread, snapshot,
                   outVars, legacy>>

(* faulty variant: the dictionaries are not cleared before they are refilled *)
KeepAllDictionaries(l) == l

(* object_listener.py 56-65 *)
ClearAllDictionaries(l) ==
    [l EXCEPT !.confidence = {}, !.bounding_box = {}, !.type = {}]

(* object_listener.py 37-40 *)
CbAssign ==
    /\ cb.pc = "assign"
    /\ listener' = ClearAllDictionaries([listener EXCEPT !.count = @ + 1,
                                                         !.objects = cb.objects])
    /\ cb' = [cb EXCEPT !.pc = "for", !.todo = KeysInOrder(cb.objects)]
    /\ UNCHANGED <<pc, cliVars, runVars, loopVars, mutex, unread, snapshot,
                   outVars, legacy>>

(* object_listener.py 41: the next item of objects.items(), or the loop's end *)
CbNext ==
    /\ cb.pc = "for"
    /\ cb' = IF cb.todo = <<>>
             THEN [cb EXCEPT !.pc = "release"]
             ELSE [cb EXCEPT !.pc = "bounding_box", !.oid = Head(cb.todo),
                             !.todo = Tail(cb.todo)]
    /\ UNCHANGED <<pc, cliVars, runVars, loopVars, mutex, listener, unread,
                   snapshot, outVars, legacy>>

(* object_listener.py 42-46 *)
CbStoreBoundingBox ==
    /\ cb.pc = "bounding_box"
    /\ listener' = [listener EXCEPT !.bounding_box = Put(@, cb.oid, cb.n)]
    /\ cb' = [cb EXCEPT !.pc = "type"]
    /\ UNCHANGED <<pc, cliVars, runVars, loopVars, mutex, unread, snapshot,
                   outVars, legacy>>

(* object_listener.py 47 *)
CbStoreType ==
    /\ cb.pc = "type"
    /\ listener' = [listener EXCEPT !.type = Put(@, cb.oid, cb.n)]
    /\ cb' = [cb EXCEPT !.pc = "confidence"]
    /\ UNCHANGED <<pc, cliVars, runVars, loopVars, mutex, unread, snapshot,
                   outVars, legacy>>

(* object_listener.py 48 *)
CbStoreConfidence ==
    /\ cb.pc = "confidence"
    /\ listener' = [listener EXCEPT !.confidence = Put(@, cb.oid, cb.n)]
    /\ cb' = [cb EXCEPT !.pc = "for"]
    /\ UNCHANGED <<pc, cliVars, runVars, loopVars, mutex, unread, snapshot,
                   outVars, legacy>>

(* object_listener.py 49 *)
CbRelease ==
    /\ cb.pc = "release"
    /\ mutex' = "free"
    /\ cb' = [cb EXCEPT !.pc = "idle", !.oid = "none"]
    /\ unread' = unread + 1
    /\ UNCHANGED <<pc, cliVars, runVars, loopVars, listener, snapshot, outVars, legacy>>

(* ------------------------ the main loop's snapshot --------------------- *)
(* faulty variant: the main loop copies without waiting for the lock *)
MainCanAcquireAnyway(m) == TRUE

(* affvisionpy_sample.py 156, 242, 311: listener.mutex.acquire() *)
MainCanAcquire(m) == m = "free"

(* affvisionpy_sample.py 156, 242, 311 *)
Acquire ==
    /\ pc = "acquire"
    /\ MainCanAcquire(mutex)
    /\ mutex' = "main"
    /\ pc' = IF Mode = "object" THEN "read_objects" ELSE "copy_listener"
    /\ snapshot' = EmptySnapshot
    /\ UNCHANGED <<cliVars, runVars, loopVars, listener, cb, unread, outVars,
                   legacy>>

(* affvisionpy_sample.py 243 *)
ReadObjects ==
    /\ pc = "read_objects"
    /\ snapshot' = [snapshot EXCEPT !.objects = listener.objects]
    /\ pc' = "copy_bounding_box"
    /\ UNCHANGED <<cliVars, runVars, loopVars, listenerVars, outVars, legacy>>

(* affvisionpy_sample.py 244 *)
CopyBoundingBox ==
    /\ pc = "copy_bounding_box"
    /\ snapshot' = [snapshot EXCEPT !.bounding_box = listener.bounding_box]
    /\ pc' = "copy_confidence"
    /\ UNCHANGED <<cliVars, runVars, loopVars, listenerVars, outVars, legacy>>

(* affvisionpy_sample.py 245 *)
CopyConfidence ==
    /\ pc = "copy_confidence"
    /\ snapshot' = [snapshot EXCEPT !.confidence = listener.confidence]
    /\ pc' = "copy_type"
    /\ UNCHANGED <<cliVars, runVars, loopVars, listenerVars, outVars, legacy>>

(* affvisionpy_sample.py 246 *)
CopyType ==
    /\ pc = "copy_type"
    /\ snapshot' = [snapshot EXCEPT !.type = listener.type, !.taken = TRUE]
    /\ pc' = "mutex_release"
    /\ UNCHANGED <<cliVars, runVars, loopVars, listenerVars, outVars, legacy>>

(* affvisionpy_sample.py 157-165, 312-317: the copies of the face and the   *)
(* occupant listener's dictionaries; what those listeners hold is whatever  *)
(* the SDK last reported, one entry per id in every dictionary              *)
CopyListener ==
    /\ pc = "copy_listener"
    /\ \E ids \in SUBSET Ids :
          LET d == {<<i, 0>> : i \in ids}
          IN snapshot' = [taken |-> TRUE, objects |-> d, measurements |-> d,
                          bounding_box |-> d, confidence |-> d, type |-> d]
    /\ pc' = "mutex_release"
    /\ UNCHANGED <<cliVars, runVars, loopVars, listenerVars, outVars, legacy>>

(* affvisionpy_sample.py 167, 247, 318 *)
Release ==
    /\ pc = "mutex_release"
    /\ mutex' = "free"
    /\ unread' = 0
    /\ steps' = Append(steps, "snapshot")
    /\ pc' = "csv"
    /\ UNCHANGED <<cliVars, runVars, framesLeft, count, curr_timestamp, last_timestamp,
                   submitted, accepted, raised, key, listener, cb, snapshot, outVars,
                   legacy>>

(* ------------------------------ CSV rows ------------------------------- *)
(* An object or occupant row is [TimeStamp, id]: the frame's timestamp and  *)
(* the id column (objectId or occupantId); the other columns are left out.  *)
(* A face row is the dictionary the code builds, column by column.          *)
(* d[k] of a dictionary: its entry for the key k *)
Entry(d, k) == CHOOSE p \in d : p[1] = k

(* affvisionpy_sample.py 361-364: TimeStamp, then NOT_A_NUMBER under every  *)
(* name of header_row[1:]                                                   *)
NanRow(ts, header) ==
    LET fields == {header[i] : i \in 2..Len(header)}
    IN [c \in {"TimeStamp"} \cup fields |->
           IF c \in fields THEN NOT_A_NUMBER ELSE ts]

(* affvisionpy_sample.py 368-394: the dictionary filled for the face fid.   *)
(* The four points and the confidence are those of bounding_box[fid]; the   *)
(* columns named by the SDK's enums (376-381) and the gaze and glasses      *)
(* columns stand under "metrics", all of them taken from the entries of fid *)
FaceRow(ts, fid, snap, identities) ==
    LET box == Entry(snap.bounding_box, fid)
        row == [TimeStamp |-> ts, faceId |-> fid,
                upperLeftX |-> box, upperLeftY |-> box,
                lowerRightX |-> box, lowerRightY |-> box,
                metrics |-> Entry(snap.measurements, fid),
                confidence |-> box]
    IN IF identities THEN row @@ [identity |-> fid, name |-> fid] ELSE row

(* faulty variant: one dictionary, created before the loop, as in           *)
(* write_object_metrics_to_csv_data_list (412)                              *)
FaceRowsShared(ts, snap, header, identities) ==
    LET ks == KeysInOrder(snap.measurements)
    IN IF ks = <<>> THEN <<NanRow(ts, header)>>
       ELSE [i \in 1..Len(ks) |-> FaceRow(ts, ks[Len(ks)], snap, identities)]

(* affvisionpy_sample.py 345-395: a fresh dictionary per face id of         *)
(* measurements, or one row of NOT_A_NUMBER when measurements has no key    *)
FaceRows(ts, snap, header, identities) ==
    LET ks == KeysInOrder(snap.measurements)
    IN IF ks = <<>> THEN <<NanRow(ts, header)>>
       ELSE [i \in 1..Len(ks) |-> FaceRow(ts, ks[i], snap, identities)]

(* affvisionpy_sample.py 397-431: one dictionary, created before the loop,  *)
(* is filled and appended once per object, so every row appended by a call  *)
(* is that same dictionary and shows the last object's values               *)
ObjectRows(ts, snap) ==
    LET ks == KeysInOrder(snap.type)
    IN [i \in 1..Len(ks) |-> [TimeStamp |-> ts, id |-> ks[Len(ks)]]]

(* affvisionpy_sample.py 433-468: as for objects, keyed by bounding_box *)
OccupantRows(ts, snap) ==
    LET ks == KeysInOrder(snap.bounding_box)
    IN [i \in 1..Len(ks) |-> [TimeStamp |-> ts, id |-> ks[Len(ks)]]]

(* affvisionpy_sample.py 169-180, 249-255, 320-328 *)
WriteMetrics ==
    /\ pc = "csv"
    /\ script = "sample"
    /\ LET ts == Round(curr_timestamp)
       IN csv_data' = csv_data \o
              (CASE Mode = "face" -> FaceRows(ts, snapshot, lists[header_row],
                                               args.show_identity)
                 [] Mode = "object" -> ObjectRows(ts, snapshot)
                 [] Mode = "occupant" -> OccupantRows(ts, snapshot))
    /\ steps' = Append(steps, "csv")
    /\ pc' = "display"
    /\ UNCHANGED <<cliVars, runVars, framesLeft, count, curr_timestamp, last_timestamp,
                   submitted, accepted, raised, key, listenerVars, snapshot, written,
                   legacy>>

(* cv2.waitKey(1): ESC, or -1 when no key was pressed *)
KeyCodes == {ESC, 0 - 1}

(* affvisionpy_sample.py 183-194, 256-265, 329-338 *)
Display ==
    /\ pc = "display"
    /\ script = "sample"
    /\ \E k \in KeyCodes :
          /\ key' = k
          /\ pc' = IF k = ESC THEN "release" ELSE "capture"
    /\ steps' = Append(steps, "display")
    /\ UNCHANGED <<cliVars, runVars, framesLeft, count, curr_timestamp, last_timestamp,
                   submitted, accepted, raised, listenerVars, snapshot, outVars, legacy>>

(* ------------------------------ shutdown ------------------------------- *)
(* affvisionpy_sample.py 101-102, affvisionpy-sample.py 503-504 *)
ReleaseCapture ==
    /\ pc = "release"
    /\ released' = TRUE
    /\ pc' = "stop"
    /\ UNCHANGED <<cliVars, detector, started, stopped, entered, loopVars, listenerVars,
                   snapshot, outVars, legacy>>

(* faulty variant: run goes on to the CSV file without calling detector.stop *)
StopDetectorMissing ==
    /\ pc = "stop"
    /\ pc' = "write_csv"
    /\ UNCHANGED <<cliVars, runVars, loopVars, listenerVars, snapshot, outVars, legacy>>

(* affvisionpy_sample.py 103, affvisionpy-sample.py 505 *)
StopDetector ==
    /\ pc = "stop"
    /\ stopped' = TRUE
    /\ pc' = "write_csv"
    /\ UNCHANGED <<cliVars, detector, started, released, entered, loopVars, listenerVars,
                   snapshot, outVars, legacy>>

(* faulty variant: the camera branch of lines 112-114 is missing *)
ShouldWriteCsvVideoOnly(in, csv) == ~in.isint

(* affvisionpy_sample.py 106-114: whether run calls write_csv_data_to_file *)
ShouldWriteCsv(in, csv) == ~in.isint \/ csv # DEFAULT_FILE_NAME

(* affvisionpy_sample.py 107-110: the name run passes for a video input *)
CsvNameFor(in, csv) ==
    IF ~in.isint /\ csv = DEFAULT_FILE_NAME
    THEN SplitFirst(IF HasChar(in.path, SEP) THEN RSplitLast(in.path, SEP) ELSE csv, ".")
    ELSE csv

(* affvisionpy_sample.py 482-483 *)
CsvPath(name) == IF Contains(name, CSV_EXT) THEN name ELSE name \o CSV_EXT

(* affvisionpy_sample.py 105-114 with write_csv_data_to_file, 470-490 *)
WriteCsv ==
    /\ pc = "write_csv"
    /\ script = "sample"
    /\ IF ShouldWriteCsv(input_file, csv_file)
       THEN /\ csv_file' = CsvNameFor(input_file, csv_file)
            /\ written' = Append(written, [name |-> CsvPath(csv_file'),
                                           header |-> lists[header_row],
                                           rows |-> csv_data])
       ELSE UNCHANGED <<csv_file, written>>
    /\ pc' = "done"
    /\ UNCHANGED <<script, args, environ, input_file, data, header_row, lists, runVars,
                   loopVars, listenerVars, snapshot, csv_data, legacy>>

(* --------------------------- the legacy script ------------------------- *)
(* affvisionpy-sample.py 422-456: detector, listener, detector.start, capture *)
LegacyStart ==
    /\ pc = "create_detector"
    /\ script = "legacy"
    /\ detector' = "SyncFrameDetector"
    /\ started' = TRUE
    /\ count' = 0
    /\ pc' = "capture"
    /\ UNCHANGED <<cliVars, stopped, released, entered, framesLeft, curr_timestamp,
                   last_timestamp, submitted, accepted, raised, steps, key, listenerVars,
                   snapshot,
                   outVars, legacy>>

(* affvisionpy-sample.py 460-473: every frame read is processed *)
LegacyReadFrame ==
    /\ pc = "capture"
    /\ script = "legacy"
    /\ \/ /\ pc' = "release"
          /\ UNCHANGED <<framesLeft, count, curr_timestamp, raised, steps>>
       \/ /\ framesLeft > 0
          /\ framesLeft' = framesLeft - 1
          /\ \E t \in Timestamps(input_file) : curr_timestamp' = t
          /\ count' = count + 1
          /\ raised' = FALSE
          /\ steps' = <<>>
          /\ pc' = "process"
    /\ UNCHANGED <<cliVars, runVars, last_timestamp, submitted, accepted, key, listenerVars,
                   snapshot, outVars, legacy>>

(* affvisionpy-sample.py 45-65: Listener.results_updated raises             *)
(* ZeroDivisionError when the frame's timestamp equals process_last_ts      *)
LegacyCallbackRaises(ts, g) == ts = g.process_last_ts

(* affvisionpy-sample.py 45-65 *)
LegacyResultsUpdated(g, faces, ts) ==
    [num_faces_defined |-> TRUE, faces |-> faces,
     measurements_dict |-> g.measurements_dict \cup faces, process_last_ts |-> ts]

(* affvisionpy-sample.py 472-479: the synchronous detector runs the         *)
(* listener inside detector.process; an exception of either is printed      *)
LegacyProcess ==
    /\ pc = "process"
    /\ script = "legacy"
    /\ \E exc \in BOOLEAN, faces \in SUBSET Ids :
          LET ts == IntOf(curr_timestamp)
              fails == exc \/ LegacyCallbackRaises(ts, legacy)
          IN /\ submitted' = Append(submitted, [ts |-> curr_timestamp, frame_ts |-> ts])
             /\ accepted' = IF fails THEN accepted ELSE accepted + 1
             /\ raised' = fails
             /\ legacy' = IF fails THEN legacy
                          ELSE LegacyResultsUpdated(legacy, faces, ts)
    /\ steps' = Append(steps, "process")
    /\ pc' = "csv"
    /\ UNCHANGED <<cliVars, runVars, framesLeft, count, curr_timestamp, last_timestamp,
                   key, listenerVars, snapshot, outVars>>

(* affvisionpy-sample.py 585-602: a fresh dictionary per face; the          *)
(* timestamp is written as it is, in ticks here                             *)
LegacyRows(ts, g) ==
    LET ks == SelectSeq(IdOrder, LAMBDA k : k \in g.measurements_dict)
    IN [i \in 1..Len(ks) |-> [TimeStamp |-> ts, id |-> ks[i]]]

(* affvisionpy-sample.py 480 *)
LegacyWriteMetrics ==
    /\ pc = "csv"
    /\ script = "legacy"
    /\ csv_data' = csv_data \o LegacyRows(curr_timestamp, legacy)
    /\ steps' = Append(steps, "csv")
    /\ pc' = "display"
    /\ UNCHANGED <<cliVars, runVars, framesLeft, count, curr_timestamp, last_timestamp,
                   submitted, accepted, raised, key, listenerVars, snapshot, written,
                   legacy>>

(* affvisionpy-sample.py 482-499: len(num_faces) is a NameError until the   *)
(* listener has run once; then draw, clear_all_dictionaries (513-517), key  *)
LegacyDisplay ==
    /\ pc = "display"
    /\ script = "legacy"
    /\ IF ~legacy.num_faces_defined
       THEN /\ pc' = "NameError"
            /\ UNCHANGED <<key, legacy>>
       ELSE /\ legacy' = [legacy EXCEPT !.measurements_dict = {}]
            /\ \E k \in KeyCodes :
                  /\ key' = k
                  /\ pc' = IF k = ESC THEN "release" ELSE "capture"
    /\ steps' = Append(steps, "display")
    /\ UNCHANGED <<cliVars, runVars, framesLeft, count, curr_timestamp, last_timestamp,
                   submitted, accepted, raised, listenerVars, snapshot, outVars>>

(* affvisionpy-sample.py 506 with write_csv_data_to_file, 646-660: open     *)
(* truncates the file, then csv_data[0] raises IndexError on an empty list  *)
LegacyWriteCsv ==
    /\ pc = "write_csv"
    /\ script = "legacy"
    /\ IF csv_data = <<>>
       THEN /\ written' = Append(written, [name |-> csv_file, header |-> <<>>,
                                           rows |-> <<>>])
            /\ pc' = "IndexError"
       ELSE /\ written' = Append(written, [name |-> csv_file,
                                           header |-> LEGACY_HEADER_ROW,
                                           rows |-> csv_data])
            /\ pc' = "done"
    /\ UNCHANGED <<cliVars, runVars, loopVars, listenerVars, snapshot, csv_data, legacy>>

(* --------------------------- specifications ---------------------------- *)
Next ==
    \/ GetCommandLineParameters
    \/ LegacyGetCommandLineParameters
    \/ CreateDetector
    \/ ProcessFaceInput
    \/ ProcessObjectInput
    \/ ProcessOccupantInput
    \/ ReadFrame
    \/ Process
    \/ CbAcquire
    \/ CbAssign
    \/ CbNext
    \/ CbStoreBoundingBox
    \/ CbStoreType
    \/ CbStoreConfidence
    \/ CbRelease
    \/ Acquire
    \/ ReadObjects
    \/ CopyBoundingBox
    \/ CopyConfidence
    \/ CopyType
    \/ CopyListener
    \/ Release
    \/ WriteMetrics
    \/ Display
    \/ ReleaseCapture
    \/ StopDetector
    \/ WriteCsv
    \/ LegacyStart
    \/ LegacyReadFrame
    \/ LegacyProcess
    \/ LegacyWriteMetrics
    \/ LegacyDisplay
    \/ LegacyWriteCsv

(* Runs explored in depth: few command lines, MaxFrames frames. *)
Spec == Init /\ [][Next]_vars

(* Every command line, with a capture of CliFrames frames. *)
InitCli == InitWith(CliArgs, EnvValues, CliFrames)
SpecCli == InitCli /\ [][Next]_vars

(* ============================== claims ================================= *)
IsSample == script = "sample"
StrictlyIncreasing(seq) == \A i, j \in 1..Len(seq) : i < j => seq[i] < seq[j]
SubmittedTs == [i \in 1..Len(submitted) |-> submitted[i].ts]

(* C1: in the three process_*_input loops a captured frame goes to          *)
(* detector.process exactly when it is the first processed frame            *)
(* (count = 0) or its timestamp is greater than last_timestamp; a frame     *)
(* that passes is handed over with that timestamp, so the timestamps handed *)
(* over are strictly increasing and a repeated or earlier one is skipped.   *)
C1_TimestampGate ==
    /\ [](IsSample => StrictlyIncreasing(SubmittedTs) /\ Len(submitted) <= count)
    /\ [][(IsSample /\ pc = "capture" /\ framesLeft' < framesLeft)
            => /\ (pc' = "process") <=> (count = 0 \/ curr_timestamp' > last_timestamp)
               /\ pc' # "process" => pc' = "capture" /\ submitted' = submitted]_vars
    /\ [][(IsSample /\ pc = "process" /\ pc' # pc)
            => /\ Len(submitted') = Len(submitted) + 1
               /\ submitted'[Len(submitted')].ts = curr_timestamp]_vars

(* C1 witness: the second captured frame was skipped, its timestamp not     *)
(* above that of the first, processed, frame                                *)
C1_Witness ==
    /\ IsSample /\ pc = "capture"
    /\ framesLeft = MaxFrames - 2
    /\ count = 1 /\ Len(submitted) = 1
    /\ curr_timestamp <= last_timestamp

MainInCriticalSection ==
    pc \in {"read_objects", "copy_bounding_box", "copy_confidence", "copy_type",
            "mutex_release"}
CallbackInCriticalSection == cb.pc # "idle"

(* C2: in object mode the callback's rewrite of the listener dictionaries   *)
(* and the main loop's copy never overlap, and every snapshot the main loop *)
(* takes is the whole result of one callback (or the initial empty state):  *)
(* the copies of bounding_box, confidence and type have the keys of the     *)
(* objects read in the same critical section, all from one callback.        *)
C2_SnapshotConsistent ==
    Mode = "object" =>
        /\ ~(MainInCriticalSection /\ CallbackInCriticalSection)
        /\ snapshot.taken =>
              /\ Keys(snapshot.bounding_box) = Keys(snapshot.objects)
              /\ Keys(snapshot.confidence) = Keys(snapshot.objects)
              /\ Keys(snapshot.type) = Keys(snapshot.objects)
              /\ \E n \in 0..MaxFrames :
                    \A p \in snapshot.objects \cup snapshot.bounding_box
                             \cup snapshot.confidence \cup snapshot.type : p[2] = n

(* C2 witness: the main loop holds a copied, non-empty result while the     *)
(* next callback is due and has to wait for the lock                        *)
C2_Witness ==
    /\ Mode = "object" /\ pc = "mutex_release" /\ snapshot.taken
    /\ Keys(snapshot.type) = Ids
    /\ cb.pc = "idle" /\ cb.n < accepted

AllSteps == <<"process", "snapshot", "csv", "display">>

(* C3: when detector.process raises, the frame is not submitted again,      *)
(* count and last_timestamp keep the values advanced for it, the frame goes *)
(* on through the snapshot, CSV-row and display steps, and the loop then    *)
(* continues with the next capture (unless ESC was pressed, as for any      *)
(* frame).                                                                  *)
C3_ExceptionIgnored ==
    /\ [](IsSample => Len(submitted) <= count)
    /\ [][(IsSample /\ pc = "process" /\ submitted' # submitted /\ raised')
            => /\ pc' = "acquire"
               /\ count' = count /\ last_timestamp' = last_timestamp]_vars
    /\ [][(IsSample /\ pc = "display" /\ raised /\ steps' # steps)
            => /\ steps' = AllSteps
               /\ pc' = IF key' = ESC THEN "release" ELSE "capture"]_vars

(* C3 witness: a frame whose detector.process raised went through every     *)
(* step and the loop is back at the capture, with frames still to come      *)
C3_Witness ==
    /\ IsSample /\ raised /\ pc = "capture" /\ steps = AllSteps
    /\ count = 1 /\ Len(submitted) = 1 /\ framesLeft > 0

(* C4: ObjectListener keeps the latest result only: whenever the mutex is   *)
(* free the keys of bounding_box, confidence and type are the object ids of *)
(* the most recent callback and every entry is that callback's, read or     *)
(* not; and a callback that is due starts as soon as the mutex is free,     *)
(* however many results are unread.                                         *)
C4_LatestResultOnly ==
    Mode = "object" =>
        /\ mutex = "free" =>
              /\ Keys(listener.bounding_box) = Keys(cb.objects)
              /\ Keys(listener.confidence) = Keys(cb.objects)
              /\ Keys(listener.type) = Keys(cb.objects)
              /\ \A p \in listener.bounding_box \cup listener.confidence
                          \cup listener.type : p[2] = cb.n
        /\ (mutex = "free" /\ cb.pc = "idle" /\ cb.n < accepted /\ started /\ ~stopped)
              => ENABLED CbAcquire

(* C4 witness: two callbacks completed without the main loop reading in    *)
(* between, and the listener holds the second one's single object           *)
C4_Witness ==
    /\ Mode = "object" /\ mutex = "free" /\ unread = 2 /\ cb.n = 2
    /\ listener.bounding_box = {<<"id1", 2>>}

(* C5: rows are appended to csv_data only inside the frame loop; the CSV    *)
(* file is written at most once, after the loop has ended, the capture was  *)
(* released and detector.stop was called, with the rows collected; and no   *)
(* row is appended once it is written.                                      *)
C5_WrittenOnceAtShutdown ==
    /\ [](/\ Len(written) <= 1
          /\ written # <<>> => /\ released /\ stopped
                               /\ pc \in {"done", "IndexError"}
                               /\ written[1].rows = csv_data)
    /\ [][csv_data' # csv_data
            => /\ pc = "csv" /\ pc' = "display"
               /\ ~released /\ ~stopped /\ written = <<>>]_vars
    /\ [][written' # written => pc = "write_csv" /\ released /\ stopped]_vars

(* C5 witness: a file was written with the rows of two frames *)
C5_Witness ==
    /\ Len(written) = 1 /\ Len(written[1].rows) >= 2
    /\ written[1].rows[1].TimeStamp # written[1].rows[Len(written[1].rows)].TimeStamp

(* What the command line asks for, read off the arguments as given. *)
VideoGiven == args.video # None
InputValid == IF VideoGiven THEN isfile(args.video) ELSE IsDigit(args.camera)
DataDirGiven == IF args.data \notin {"<None>", ""} THEN args.data ELSE environ
DataDirValid == DataDirGiven # "<None>" /\ isdir(DataDirGiven)
ConflictingFeatures ==
    \/ args.show_object /\ args.show_occupant
    \/ args.show_identity /\ (args.show_object \/ args.show_occupant)
NothingStarted ==
    /\ detector = "none" /\ ~started /\ entered = {}
    /\ count = 0 /\ submitted = <<>> /\ csv_data = <<>> /\ written = <<>>
Returned == pc \notin {"start", "ValueError", "sys.exit(1)"}

(* C6: with a valid input and data directory, get_command_line_parameters  *)
(* exits with status 1 exactly when --object and --occupant are both set or *)
(* --identity is set with either of them, before a detector is created or a *)
(* frame is captured; for every other combination of the flags it returns.  *)
C6_ConflictsRejected ==
    (IsSample /\ pc # "start" /\ InputValid /\ DataDirValid) =>
        /\ ConflictingFeatures => pc = "sys.exit(1)" /\ NothingStarted
        /\ ~ConflictingFeatures => Returned

(* C6 witness: --object with --occupant, without --identity, was rejected *)
C6_Witness ==
    /\ IsSample /\ pc = "sys.exit(1)" /\ InputValid /\ DataDirValid
    /\ args.show_object /\ args.show_occupant /\ ~args.show_identity

ModeFlags == {f \in {"show_face", "show_object", "show_occupant"} : args[f]}
FunctionOf(flag) ==
    CASE flag = "show_face" -> "process_face_input"
      [] flag = "show_object" -> "process_object_input"
      [] flag = "show_occupant" -> "process_occupant_input"
HeaderOf(flag) ==
    CASE flag = "show_face" -> "HEADER_ROW_FACES"
      [] flag = "show_object" -> "HEADER_ROW_OBJECTS"
      [] flag = "show_occupant" -> "HEADER_ROW_OCCUPANTS"
HeaderColumnsOf(flag) ==
    CASE flag = "show_face" ->
             HEADER_ROW_FACES_INIT \o
                 (IF args.show_identity THEN <<"identity", "name">> ELSE <<>>)
      [] flag = "show_object" -> HEADER_ROW_OBJECTS_INIT
      [] flag = "show_occupant" -> HEADER_ROW_OCCUPANTS_INIT

(* C7: once get_command_line_parameters has returned, exactly one of face,  *)
(* object and occupant mode is in effect, face mode exactly when neither    *)
(* --object nor --occupant was given; run calls the process_*_input         *)
(* function of that mode and no other, and header_row is that mode's header *)
(* list.                                                                    *)
C7_ExactlyOneMode ==
    (IsSample /\ Returned) =>
        /\ Cardinality(ModeFlags) = 1
        /\ args.show_face <=> ~(args.show_object \/ args.show_occupant)
        /\ \A f \in ModeFlags :
              /\ header_row = HeaderOf(f)
              /\ lists[header_row] = HeaderColumnsOf(f)
              /\ entered \subseteq {FunctionOf(f)}
              /\ pc \notin {"create_detector", "dispatch"} => entered = {FunctionOf(f)}

(* C7 witness: a run with --occupant alone went through                     *)
(* process_occupant_input and ended                                         *)
C7_Witness ==
    /\ IsSample /\ pc = "done" /\ args.show_occupant /\ ~args.show_object
    /\ entered = {"process_occupant_input"} /\ submitted # <<>>

(* C8: at the end of run the CSV file is written for every video-file run;  *)
(* for a camera run it is written exactly when -f gave a name other than    *)
(* the default, so a camera run without -f writes none.                     *)
C8_CsvWrittenWhen ==
    (IsSample /\ pc = "done") =>
        /\ VideoGiven => Len(written) = 1
        /\ ~VideoGiven => (Len(written) = 1 <=> args.file # DEFAULT_FILE_NAME)
        /\ (~VideoGiven /\ args.file = DEFAULT_FILE_NAME) => written = <<>>

(* C8 witness: a camera run with -f wrote its file *)
C8_Witness ==
    /\ IsSample /\ pc = "done" /\ ~VideoGiven /\ args.file = <<"o">>
    /\ Len(written) = 1 /\ written[1].name = <<"o">> \o CSV_EXT

(* The base name of a path: its directory part removed. *)
Basename(path) == IF HasChar(path, SEP) THEN RSplitLast(path, SEP) ELSE path

(* C9: for a video-file run without -f the CSV file is named after the      *)
(* video, its base name cut at the first dot plus ".csv", for every input   *)
(* path, with or without a directory separator; with -f the given name is   *)
(* used, ".csv" appended only when the name does not contain ".csv".        *)
C9_CsvNamedAfterVideo ==
    (IsSample /\ pc = "done" /\ VideoGiven) =>
        /\ Len(written) = 1
        /\ written[1].name =
              IF args.file = DEFAULT_FILE_NAME
              THEN SplitFirst(Basename(args.video), ".") \o CSV_EXT
              ELSE IF Contains(args.file, CSV_EXT) THEN args.file
              ELSE args.file \o CSV_EXT

(* C10: a given video path is the input whatever the camera argument is,    *)
(* and is a ValueError when it is no existing file; without a video path    *)
(* the camera argument is returned as an integer when it consists of        *)
(* digits only and is a ValueError otherwise; no detector is created in     *)
(* either error case.                                                       *)
C10_InputSelection ==
    pc # "start" =>
        /\ ~InputValid => pc = "ValueError" /\ NothingStarted
        /\ (InputValid /\ Returned) =>
              input_file = IF VideoGiven THEN PathInput(args.video)
                           ELSE IntInput(DecimalValue(args.camera))

(* Where the two failing claims do hold: C9's naming for a video path that  *)
(* holds a directory separator or comes with -f, and C10's selection in     *)
(* affvisionpy_sample.py, whose camera check is str.isdigit.                *)
C9_HoldsWithSeparator ==
    (HasChar(args.video, SEP) \/ args.file # DEFAULT_FILE_NAME) => C9_CsvNamedAfterVideo
C10_HoldsInSample == IsSample => C10_InputSelection

HeaderRowUnchanged == header_row = "header_row" /\ lists[header_row] = <<>>

(* C11: the data directory is the value of -d when one is given (a         *)
(* non-empty string) and otherwise the value of AFFECTIVA_VISION_DATA_DIR;  *)
(* when neither is set, or the path so chosen is no directory,              *)
(* get_command_line_parameters ends in sys.exit(1) (or, the input being     *)
(* invalid as well, in the ValueError raised before), nothing is started,   *)
(* and header_row is still the empty list it was; when it returns, data is  *)
(* that path.                                                               *)
C11_DataDirectory ==
    (IsSample /\ pc # "start") =>
        /\ ~DataDirValid =>
              /\ pc = IF InputValid THEN "sys.exit(1)" ELSE "ValueError"
              /\ HeaderRowUnchanged
              /\ NothingStarted
        /\ pc = "sys.exit(1)" => HeaderRowUnchanged
        /\ Returned => data = DataDirGiven /\ isdir(data)
        /\ (Returned /\ args.data \in ExistingDirs) => data = args.data

(* C11 witness: -d names no directory while the environment variable names  *)
(* one, and the program exited                                              *)
C11_Witness ==
    /\ IsSample /\ pc = "sys.exit(1)" /\ InputValid
    /\ args.data = "nodir" /\ environ = "models"

(* C11 second case: nothing on the command line, the variable unset *)
C11_WitnessNeitherSet ==
    /\ IsSample /\ pc = "sys.exit(1)" /\ InputValid
    /\ args.data = "<None>" /\ environ = "<None>"

(* C11 third case: the environment variable supplied the directory *)
C11_WitnessFromEnviron ==
    /\ IsSample /\ pc = "done" /\ args.data = "<None>" /\ data = "models"

(* The rows a step appended to csv_data. *)
Appended == SubSeq(csv_data', Len(csv_data) + 1, Len(csv_data'))
HeaderColumns == {lists[header_row][i] : i \in 1..Len(lists[header_row])}

(* C12: for each processed frame of face mode                               *)
(* write_face_metrics_to_csv_data_list appends exactly one row per face id  *)
(* of the measurements snapshot, each row with the frame's (rounded)        *)
(* timestamp, that face's own id and the points of that face's own          *)
(* bounding box; with no face in the snapshot it appends exactly one row,   *)
(* which has the frame's timestamp under TimeStamp and 'nan' under every    *)
(* other column of header_row, faceId included; rows appended before are    *)
(* left as they were.                                                       *)
C12_FaceRows ==
    /\ []((IsSample /\ Mode = "face" /\ pc \in {"capture", "display"})
            => Len(csv_data) >= count)
    /\ [][(IsSample /\ Mode = "face" /\ pc = "csv" /\ pc' # pc)
            => LET ids == Keys(snapshot.measurements)
                   ts == Round(curr_timestamp)
               IN /\ SubSeq(csv_data', 1, Len(csv_data)) = csv_data
                  /\ IF ids = {}
                     THEN /\ Len(Appended) = 1
                          /\ DOMAIN Appended[1] = HeaderColumns
                          /\ Appended[1]["TimeStamp"] = ts
                          /\ "faceId" \in HeaderColumns
                          /\ \A c \in HeaderColumns \ {"TimeStamp"} :
                                Appended[1][c] = NOT_A_NUMBER
                     ELSE /\ Len(Appended) = Cardinality(ids)
                          /\ \A fid \in ids :
                                Cardinality({i \in 1..Len(Appended) :
                                                Appended[i].faceId = fid}) = 1
                          /\ \A i \in 1..Len(Appended) :
                                LET box == Entry(snapshot.bounding_box,
                                                 Appended[i].faceId)
                                IN /\ Appended[i].TimeStamp = ts
                                   /\ Appended[i].upperLeftX = box
                                   /\ Appended[i].upperLeftY = box
                                   /\ Appended[i].lowerRightX = box
                                   /\ Appended[i].lowerRightY = box]_vars

(* C12 witness: a frame with two faces gave two rows, one for each face *)
C12_Witness ==
    /\ IsSample /\ Mode = "face" /\ pc = "display"
    /\ Keys(snapshot.measurements) = Ids
    /\ Len(csv_data) = 2
    /\ csv_data[1].faceId = "id1" /\ csv_data[2].faceId = "id2"

(* C12 second case: a frame without a face gave the one row of 'nan' *)
C12_WitnessNoFace ==
    /\ IsSample /\ Mode = "face" /\ pc = "display"
    /\ snapshot.measurements = {}
    /\ Len(csv_data) = 1 /\ csv_data[1]["faceId"] = NOT_A_NUMBER

(* C13: in affvisionpy-sample.py, once the loop has ended and the detector  *)
(* was stopped, write_csv_data_to_file returns without raising for any      *)
(* csv_data, and the file holds the header row followed by the collected    *)
(* rows: the header row alone when no row was collected.                    *)
C13_LegacyCsvForAnyData ==
    (script = "legacy" /\ stopped /\ pc # "write_csv") =>
        /\ pc = "done"
        /\ Len(written) = 1
        /\ written[1].header = LEGACY_HEADER_ROW
        /\ written[1].rows = csv_data

(* Where C13 does hold: at least one row was collected. *)
C13_HoldsWithRows == csv_data # <<>> => C13_LegacyCsvForAnyData

(* int(curr_timestamp) of the frames handed to detector.process, in order *)
FrameTs == [i \in 1..Len(submitted) |-> submitted[i].frame_ts]

(* C14: the integer timestamps placed in the frames handed to the detector, *)
(* int(curr_timestamp), are strictly increasing from one processed frame to *)
(* the next, for camera input as well as for video-file input.              *)
C14_FrameTimestampsIncrease == IsSample => StrictlyIncreasing(FrameTs)

(* Where C14 does hold: video-file input, whose timestamp is cut to an int  *)
(* before the comparison of line 144.                                       *)
C14_HoldsForVideo == ~input_file.isint => C14_FrameTimestampsIncrease
====
